---- MODULE Spec2Model ----
(***************************************************************************)
(* Model of tides_and_currents_downloader.py: the date-range partitioner   *)
(* get_date_sequence and the lazily evaluated response stitcher            *)
(* request_data.                                                           *)
(***************************************************************************)
EXTENDS Integers, Sequences, FiniteSets, TLC

(* ---------------- bounds of the model ---------------- *)
\* first calendar year from which begin_date is drawn
FirstYear == 2019
\* number of calendar years from which begin_date is drawn (2020 is a leap year)
NumYears == 2
\* largest end_date - begin_date, in days
MaxSpan == 95
\* largest begin_date - end_date, in days, for reversed inputs
MaxReverse == 2
\* largest number of request targets (urls)
MaxTargets == 3
\* largest number of lines of a csv response
MaxLines == 2
\* largest number of entries of a json response's data array
MaxData == 2
\* largest number of lines, or of data entries, of all responses of a pass together
MaxTotal == 3

VARIABLES
    begin_date,      \* get_date_sequence: parameter
    end_date,        \* get_date_sequence: parameter
    dates,           \* get_date_sequence: the list being built / returned
    tmp_date_start,  \* get_date_sequence: loop variable
    dpc,             \* get_date_sequence: position in the function body
    urls,            \* request_data: parameter; urls[k] is what the server answers for target k
    result_type,     \* request_data: parameter
    show_progress,   \* request_data: parameter
    stderr,          \* the progress messages printed to sys.stderr
    ix,              \* request_data: index of the for loop over urls (0-based)
    lines,           \* request_data: the lines being yielded (csv)
    data,            \* request_data: the parsed response (json)
    i,               \* request_data: index of the inner loop (0-based)
    gpc,             \* request_data: position of the generator's frame
    running,         \* the consumer is inside next() and the generator's frame executes
    out,             \* the chunks delivered to the consumer so far
    last,            \* how the consumer's most recent next() ended
    stopped,         \* the consumer has given up pulling
    fetchlog         \* the calls of urllib.request.urlopen: <<"call", k>>, <<"return", k>>, <<"raise", k>>

dvars == <<begin_date, end_date, dates, tmp_date_start, dpc>>
svars == <<urls, result_type, show_progress, stderr, ix, lines, data, i, gpc, running, out, last, stopped, fetchlog>>
vars == <<dvars, svars>>

(* ---------------- datetime.date and datetime.timedelta ---------------- *)
\* datetime._is_leap
IsLeap(y) == (y % 4 = 0) /\ ((y % 100 # 0) \/ (y % 400 = 0))

\* datetime._days_in_month
DaysInMonth(y, m) ==
    IF m = 2 THEN (IF IsLeap(y) THEN 29 ELSE 28)
    ELSE IF m \in {4, 6, 9, 11} THEN 30 ELSE 31

\* datetime._days_before_year: days before January 1st of year y
DaysBeforeYear(y) ==
    (y - 1) * 365 + ((y - 1) \div 4) - ((y - 1) \div 100) + ((y - 1) \div 400)

\* datetime._days_before_month: days in year y before the first day of month m
RECURSIVE DaysBeforeMonth(_, _)
DaysBeforeMonth(y, m) ==
    IF m = 1 THEN 0 ELSE DaysBeforeMonth(y, m - 1) + DaysInMonth(y, m - 1)

\* date(year=, month=, day=)
Date(y, m, d) == [year |-> y, month |-> m, day |-> d]

\* date.toordinal
ToOrdinal(dt) == DaysBeforeYear(dt.year) + DaysBeforeMonth(dt.year, dt.month) + dt.day

\* date.fromordinal: the inverse of toordinal
FromOrdinal(n) ==
    LET y == CHOOSE yy \in ((n \div 366) + 1)..((n \div 365) + 1) :
                 DaysBeforeYear(yy) < n /\ n <= DaysBeforeYear(yy + 1)
        r == n - DaysBeforeYear(y)
        m == CHOOSE mm \in 1..12 :
                 DaysBeforeMonth(y, mm) < r /\ r <= DaysBeforeMonth(y, mm) + DaysInMonth(y, mm)
    IN  Date(y, m, r - DaysBeforeMonth(y, m))

\* date + timedelta(days=k)
AddDays(dt, k) == FromOrdinal(ToOrdinal(dt) + k)

\* (a - b).days
DeltaDays(a, b) == ToOrdinal(a) - ToOrdinal(b)

\* a < b on dates: comparison of (year, month, day)
DateLT(a, b) ==
    \/ a.year < b.year
    \/ a.year = b.year /\ a.month < b.month
    \/ a.year = b.year /\ a.month = b.month /\ a.day < b.day

(* ---------------- first_day_of_month, last_day_of_month ---------------- *)
first_day_of_month(d) == Date(d.year, d.month, 1)

\* last_day_of_month without the step back of one day
last_day_of_month_nostep(d) ==
    IF d.month # 12
    THEN Date(d.year, d.month + 1, 1)
    ELSE Date(d.year, 12, 31)

\* last_day_of_month with December ending on the 30th
last_day_of_month_dec30(d) ==
    IF d.month # 12
    THEN AddDays(Date(d.year, d.month + 1, 1), -1)
    ELSE Date(d.year, 12, 30)

last_day_of_month(d) ==
    IF d.month # 12
    THEN AddDays(Date(d.year, d.month + 1, 1), -1)
    ELSE Date(d.year, 12, 31)

(* ---------------- get_date_sequence ---------------- *)
\* the calendar dates from which begin_date is drawn
BeginDates ==
    { dt \in [year : FirstYear..(FirstYear + NumYears - 1), month : 1..12, day : 1..31] :
          dt.day <= DaysInMonth(dt.year, dt.month) }

\* line 30 with a window one day too wide
FitsOneRequest_wide(b, e) == DeltaDays(e, b) <= 32

\* line 30 with a window one day too narrow
FitsOneRequest_narrow(b, e) == DeltaDays(e, b) <= 30

\* line 30 with reversed dates refused
FitsOneRequest_ordered(b, e) == 0 <= DeltaDays(e, b) /\ DeltaDays(e, b) <= 31

\* line 30: date_delta.days <= 31
FitsOneRequest(b, e) == DeltaDays(e, b) <= 31

\* line 41 with <= in place of <
LoopCond_le(t, e) == ~DateLT(e, last_day_of_month(t))

\* line 41: last_day_of_month(tmp_date_start) < end_date
LoopCond(t, e) == DateLT(last_day_of_month(t), e)

\* request_data is not called
SIdle ==
    /\ urls = << >>
    /\ result_type = "csv"
    /\ show_progress = FALSE
    /\ stderr = << >>
    /\ ix = 0
    /\ lines = << >>
    /\ data = [metadata |-> [m |-> 1], data |-> << >>]
    /\ i = 0
    /\ gpc = "created"
    /\ running = FALSE
    /\ out = << >>
    /\ last = "none"
    /\ stopped = FALSE
    /\ fetchlog = << >>

DInit ==
    /\ SIdle
    /\ begin_date \in BeginDates
    /\ \E k \in (0 - MaxReverse)..MaxSpan : end_date = AddDays(begin_date, k)
    /\ dates = << >>
    /\ tmp_date_start = begin_date
    /\ dpc = "start"

\* lines 27-32: the span fits one request
SingleRange ==
    /\ dpc = "start"
    /\ FitsOneRequest(begin_date, end_date)
    /\ dates' = Append(dates, <<begin_date, end_date>>)
    /\ dpc' = "done"
    /\ UNCHANGED <<begin_date, end_date, tmp_date_start>>
    /\ UNCHANGED svars

\* lines 33-40: first range, up to the end of begin_date's month
FirstRange ==
    /\ dpc = "start"
    /\ ~FitsOneRequest(begin_date, end_date)
    /\ LET ldm_begin_date == last_day_of_month(begin_date)
       IN  /\ dates' = Append(dates, <<begin_date, ldm_begin_date>>)
           /\ tmp_date_start' = AddDays(ldm_begin_date, 1)
    /\ dpc' = "loop"
    /\ UNCHANGED <<begin_date, end_date>>
    /\ UNCHANGED svars

\* lines 41-45: one iteration of the while loop, a whole month
MiddleRange ==
    /\ dpc = "loop"
    /\ LoopCond(tmp_date_start, end_date)
    /\ LET tmp_date_end == last_day_of_month(tmp_date_start)
       IN  /\ dates' = Append(dates, <<tmp_date_start, tmp_date_end>>)
           /\ tmp_date_start' = AddDays(tmp_date_end, 1)
    /\ UNCHANGED <<begin_date, end_date, dpc>>
    /\ UNCHANGED svars

\* lines 47-52: loop exit, last range from the first day of end_date's month
LastRange ==
    /\ dpc = "loop"
    /\ ~LoopCond(tmp_date_start, end_date)
    /\ LET fdm_end_date == first_day_of_month(end_date)
       IN  dates' = Append(dates, <<fdm_end_date, end_date>>)
    /\ dpc' = "done"
    /\ UNCHANGED <<begin_date, end_date, tmp_date_start>>
    /\ UNCHANGED svars

DNext == SingleRange \/ FirstRange \/ MiddleRange \/ LastRange

SpecDates == DInit /\ [][DNext]_vars

(* ---------------- properties of get_date_sequence ---------------- *)
\* get_date_sequence has returned for an input with begin_date <= end_date
Returned == dpc = "done" /\ ToOrdinal(begin_date) <= ToOrdinal(end_date)

\* a range's start and end
RStart(r) == r[1]
REnd(r) == r[2]

\* the calendar months from a's month through b's month, both included
MonthsThrough(a, b) == (b.year * 12 + b.month) - (a.year * 12 + a.month) + 1

\* the last calendar day of (y, m), from the calendar alone
MonthEnd(y, m) == Date(y, m, DaysInMonth(y, m))

\* C1: for begin <= end the returned ranges, in list order, cover exactly
\* [begin, end]: the first starts at begin, the last ends at end, and every
\* later range starts one day after the preceding one ends.
C1_ExactCover ==
    Returned =>
        /\ Len(dates) >= 1
        /\ RStart(dates[1]) = begin_date
        /\ REnd(dates[Len(dates)]) = end_date
        /\ \A j \in 2..Len(dates) :
               ToOrdinal(RStart(dates[j])) = ToOrdinal(REnd(dates[j - 1])) + 1

\* a returned chain of at least four ranges
C1_Witness == Returned /\ Len(dates) >= 4

\* C2: for begin <= end every returned range has start <= end and
\* end - start <= 31 days.
C2_RangeBounded ==
    Returned =>
        \A j \in 1..Len(dates) :
            /\ ToOrdinal(RStart(dates[j])) <= ToOrdinal(REnd(dates[j]))
            /\ DeltaDays(REnd(dates[j]), RStart(dates[j])) <= 31

\* a single returned range whose end - start is exactly 31 days
C2_Witness ==
    Returned /\ Len(dates) = 1 /\ DeltaDays(REnd(dates[1]), RStart(dates[1])) = 31

\* C3: for begin <= end every returned range spans at most 31 calendar days
\* when both inclusive endpoints are counted.
C3_InclusiveSpan ==
    Returned =>
        \A j \in 1..Len(dates) :
            DeltaDays(REnd(dates[j]), RStart(dates[j])) + 1 <= 31

\* C4: for begin <= end with end - begin <= 31 days exactly one range is
\* returned and it equals (begin, end).
C4_SingleRange ==
    (Returned /\ DeltaDays(end_date, begin_date) <= 31) =>
        dates = << <<begin_date, end_date>> >>

\* a returned call whose span is exactly 31 days and crosses a month boundary
C4_Witness ==
    /\ Returned
    /\ DeltaDays(end_date, begin_date) = 31
    /\ begin_date.month # end_date.month
    /\ Len(dates) = 1

\* C5: for end - begin > 31 days the result is a month-aligned chain: first
\* range (begin, last day of begin's month), last range (first day of end's
\* month, end), whole calendar months in between, and as many ranges as
\* calendar months from begin's month through end's month.
C5_MonthChain ==
    (Returned /\ DeltaDays(end_date, begin_date) > 31) =>
        /\ Len(dates) = MonthsThrough(begin_date, end_date)
        /\ dates[1] = <<begin_date, MonthEnd(begin_date.year, begin_date.month)>>
        /\ dates[Len(dates)] = <<Date(end_date.year, end_date.month, 1), end_date>>
        /\ \A j \in 2..(Len(dates) - 1) :
               /\ RStart(dates[j]).day = 1
               /\ REnd(dates[j]) = MonthEnd(RStart(dates[j]).year, RStart(dates[j]).month)

\* a chain of at least four ranges with a whole February in it, ending on the last day of a month
C5_Witness ==
    /\ Returned
    /\ DeltaDays(end_date, begin_date) > 31
    /\ Len(dates) >= 4
    /\ end_date = MonthEnd(end_date.year, end_date.month)
    /\ \E j \in 2..(Len(dates) - 1) : REnd(dates[j]).month = 2 /\ REnd(dates[j]).day >= 28

(* ---------------- the server's answers and json ---------------- *)
\* a line of a response body as bytes
BLine(text) == [bytes |-> text]

\* bytes.decode
Decode(b) == b.bytes

\* the values json.loads builds for metadata and for data entries (python dicts)
MetaValues == { [m |-> 1], [m |-> 2] }
EntryValues == { [x |-> 1], [x |-> 2] }

\* json.dumps
Dumps(v) ==
    CASE v = [m |-> 1] -> "{\"m\": 1}"
      [] v = [m |-> 2] -> "{\"m\": 2}"
      [] v = [x |-> 1] -> "{\"x\": 1}"
      [] v = [x |-> 2] -> "{\"x\": 2}"

\* the texts of csv lines, terminator included
LineTexts == { "h\n", "a\n" }

\* all sequences over S of length at most n
SeqUpTo(S, n) == UNION { [1..k -> S] : k \in 0..n }

\* the bodies a server can answer with, for a requested format
Bodies(fmt) ==
    IF fmt = "csv" THEN { [ln \in DOMAIN sq |-> BLine(sq[ln])] : sq \in SeqUpTo(LineTexts, MaxLines) }
    ELSE IF fmt = "json" THEN [metadata : MetaValues, data : SeqUpTo(EntryValues, MaxData)]
    ELSE { << >> }

\* what urlopen(url) does: return a response with a body, or raise
Responses(fmt) == [status : {"ok"}, body : Bodies(fmt)] \cup { [status |-> "fail", body |-> << >>] }

\* request.readlines()
ReadLines(response) == response.body

\* json.loads(''.join([line.decode() for line in request.readlines()]))
Loads(response) == response.body

\* list[1:] replaced by the whole list
Slice1_keep(sq) == sq

\* list[1:]
Slice1(sq) == IF Len(sq) = 0 THEN << >> ELSE Tail(sq)

\* the number of lines, or of data entries, of a response
Size(fmt, response) ==
    IF response.status # "ok" THEN 0
    ELSE IF fmt = "csv" THEN Len(response.body)
    ELSE IF fmt = "json" THEN Len(response.body.data)
    ELSE 0

\* the number of lines, or of data entries, of the responses of a target list
RECURSIVE TotalSize(_, _)
TotalSize(fmt, us) ==
    IF Len(us) = 0 THEN 0 ELSE Size(fmt, Head(us)) + TotalSize(fmt, Tail(us))

\* the target lists of a pass, each target given as the server's answer to it
TargetLists(fmt) ==
    { us \in SeqUpTo(Responses(fmt), MaxTargets) : TotalSize(fmt, us) <= MaxTotal }

(* ---------------- request_data ---------------- *)
SInit ==
    /\ begin_date = Date(FirstYear, 1, 1)
    /\ end_date = Date(FirstYear, 1, 1)
    /\ dates = << >>
    /\ tmp_date_start = Date(FirstYear, 1, 1)
    /\ dpc = "start"
    /\ result_type \in {"csv", "json", "xml"}
    /\ urls \in TargetLists(result_type)
    /\ show_progress \in BOOLEAN
    /\ stderr = << >>
    /\ ix = 0
    /\ lines = << >>
    /\ data = [metadata |-> [m |-> 1], data |-> << >>]
    /\ i = 0
    /\ gpc = "created"
    /\ running = FALSE
    /\ out = << >>
    /\ last = "none"
    /\ stopped = FALSE
    /\ fetchlog = << >>

\* the generator's frame is suspended at a yield, or has not started
Suspended == gpc \in {"created", "csv_yield", "json_open_yield", "json_yield", "close_yield"}

\* the generator has returned or raised
Ended == gpc \in {"finished", "raised"}

\* line 116: the consumer calls next() on a live generator
Pull ==
    /\ ~running /\ ~stopped /\ Suspended
    /\ running' = TRUE
    /\ UNCHANGED <<urls, result_type, show_progress, stderr, ix, lines, data, i, gpc, out, last, stopped, fetchlog>>
    /\ UNCHANGED dvars

\* next() on a generator that has raised yields the closing chunk once more
PullEnded_late ==
    /\ ~running /\ ~stopped /\ Ended
    /\ last' = "StopIteration"
    /\ out' = (IF last = "error" THEN Append(out, <<"]}\n">>) ELSE out)
    /\ UNCHANGED <<urls, result_type, show_progress, stderr, ix, lines, data, i, gpc, running, stopped, fetchlog>>
    /\ UNCHANGED dvars

\* the consumer calls next() on a generator that has ended: StopIteration, nothing runs
PullEnded ==
    /\ ~running /\ ~stopped /\ Ended
    /\ last' = "StopIteration"
    /\ UNCHANGED <<urls, result_type, show_progress, stderr, ix, lines, data, i, gpc, running, out, stopped, fetchlog>>
    /\ UNCHANGED dvars

\* the consumer stops pulling
Stop ==
    /\ ~running /\ ~stopped
    /\ stopped' = TRUE
    /\ UNCHANGED <<urls, result_type, show_progress, stderr, ix, lines, data, i, gpc, running, out, last, fetchlog>>
    /\ UNCHANGED dvars

\* lines 68-71: the frame starts and enters the for loop
Start ==
    /\ running /\ gpc = "created"
    /\ ix' = 0
    /\ stderr' = (IF show_progress THEN Append(stderr, <<"Downloading data...">>) ELSE stderr)
    /\ gpc' = "for"
    /\ UNCHANGED <<urls, result_type, show_progress, lines, data, i, running, out, last, stopped, fetchlog>>
    /\ UNCHANGED dvars

\* lines 71-75: the loop takes the next url and calls urlopen
CallUrlopen ==
    /\ running /\ gpc = "for"
    /\ ix < Len(urls)
    /\ fetchlog' = Append(fetchlog, <<"call", ix + 1>>)
    /\ stderr' = (IF show_progress THEN Append(stderr, <<"progress", ix + 1, Len(urls)>>) ELSE stderr)
    /\ gpc' = "urlopen"
    /\ UNCHANGED <<urls, result_type, show_progress, ix, lines, data, i, running, out, last, stopped>>
    /\ UNCHANGED dvars

\* line 75 with the exception caught and the url skipped
UrlopenRaises_swallow ==
    /\ running /\ gpc = "urlopen"
    /\ urls[ix + 1].status = "fail"
    /\ fetchlog' = Append(fetchlog, <<"raise", ix + 1>>)
    /\ gpc' = "next_url"
    /\ UNCHANGED <<urls, result_type, show_progress, stderr, ix, lines, data, i, running, out, last, stopped>>
    /\ UNCHANGED dvars

\* line 75: urlopen raises; the exception leaves the generator
UrlopenRaises ==
    /\ running /\ gpc = "urlopen"
    /\ urls[ix + 1].status = "fail"
    /\ fetchlog' = Append(fetchlog, <<"raise", ix + 1>>)
    /\ gpc' = "raised"
    /\ running' = FALSE
    /\ last' = "error"
    /\ UNCHANGED <<urls, result_type, show_progress, stderr, ix, lines, data, i, out, stopped>>
    /\ UNCHANGED dvars

\* the opening chunk of line 89
OpenChunk(metadata) == <<"{\"metadata\": ", Dumps(metadata), ",\n\"data\": [\n">>

\* line 88 with the test on ix lost
IsFirstUrl_always(k) == TRUE

\* line 88: ix == 0
IsFirstUrl(k) == k = 0

\* lines 75-94 with an unknown result_type refused by an exception
UrlopenReturns_strict ==
    /\ running /\ gpc = "urlopen"
    /\ urls[ix + 1].status = "ok"
    /\ fetchlog' = Append(fetchlog, <<"return", ix + 1>>)
    /\ i' = 0
    /\ IF result_type = "csv"
       THEN /\ lines' = (IF ix = 0 THEN ReadLines(urls[ix + 1]) ELSE Slice1(ReadLines(urls[ix + 1])))
            /\ gpc' = "csv_loop"
            /\ UNCHANGED <<data, running, out, last>>
       ELSE IF result_type = "json"
       THEN /\ data' = Loads(urls[ix + 1])
            /\ IF IsFirstUrl(ix)
               THEN /\ out' = Append(out, OpenChunk(data'.metadata))
                    /\ gpc' = "json_open_yield"
                    /\ running' = FALSE
                    /\ last' = "chunk"
               ELSE /\ gpc' = "json_loop"
                    /\ UNCHANGED <<running, out, last>>
            /\ UNCHANGED lines
       ELSE /\ gpc' = "raised"
            /\ running' = FALSE
            /\ last' = "error"
            /\ UNCHANGED <<lines, data, out>>
    /\ UNCHANGED <<urls, result_type, show_progress, stderr, ix, stopped>>
    /\ UNCHANGED dvars

\* lines 75-89: urlopen returns; the body is read; for json on the first url
\* the opening chunk is yielded
UrlopenReturns ==
    /\ running /\ gpc = "urlopen"
    /\ urls[ix + 1].status = "ok"
    /\ fetchlog' = Append(fetchlog, <<"return", ix + 1>>)
    /\ i' = 0
    /\ IF result_type = "csv"
       THEN /\ lines' = (IF ix = 0 THEN ReadLines(urls[ix + 1]) ELSE Slice1(ReadLines(urls[ix + 1])))
            /\ gpc' = "csv_loop"
            /\ UNCHANGED <<data, running, out, last>>
       ELSE IF result_type = "json"
       THEN /\ data' = Loads(urls[ix + 1])
            /\ IF IsFirstUrl(ix)
               THEN /\ out' = Append(out, OpenChunk(data'.metadata))
                    /\ gpc' = "json_open_yield"
                    /\ running' = FALSE
                    /\ last' = "chunk"
               ELSE /\ gpc' = "json_loop"
                    /\ UNCHANGED <<running, out, last>>
            /\ UNCHANGED lines
       ELSE /\ gpc' = "next_url"
            /\ UNCHANGED <<lines, data, running, out, last>>
    /\ UNCHANGED <<urls, result_type, show_progress, stderr, ix, stopped>>
    /\ UNCHANGED dvars

\* lines 83-84: the csv loop yields the next line
CsvYield ==
    /\ running /\ gpc = "csv_loop"
    /\ i < Len(lines)
    /\ out' = Append(out, <<Decode(lines[i + 1])>>)
    /\ gpc' = "csv_yield"
    /\ running' = FALSE
    /\ last' = "chunk"
    /\ UNCHANGED <<urls, result_type, show_progress, stderr, ix, lines, data, i, stopped, fetchlog>>
    /\ UNCHANGED dvars

\* line 84: the frame resumes after the yield of a line
CsvResume ==
    /\ running /\ gpc = "csv_yield"
    /\ i' = i + 1
    /\ gpc' = "csv_loop"
    /\ UNCHANGED <<urls, result_type, show_progress, stderr, ix, lines, data, running, out, last, stopped, fetchlog>>
    /\ UNCHANGED dvars

\* line 83 with the loop left one line early
CsvDone_early ==
    /\ running /\ gpc = "csv_loop"
    /\ ~(i + 1 < Len(lines))
    /\ gpc' = "next_url"
    /\ UNCHANGED <<urls, result_type, show_progress, stderr, ix, lines, data, i, running, out, last, stopped, fetchlog>>
    /\ UNCHANGED dvars

\* line 83: the csv loop is exhausted
CsvDone ==
    /\ running /\ gpc = "csv_loop"
    /\ ~(i < Len(lines))
    /\ gpc' = "next_url"
    /\ UNCHANGED <<urls, result_type, show_progress, stderr, ix, lines, data, i, running, out, last, stopped, fetchlog>>
    /\ UNCHANGED dvars

\* line 89: the frame resumes after the yield of the opening chunk
JsonOpenResume ==
    /\ running /\ gpc = "json_open_yield"
    /\ gpc' = "json_loop"
    /\ UNCHANGED <<urls, result_type, show_progress, stderr, ix, lines, data, i, running, out, last, stopped, fetchlog>>
    /\ UNCHANGED dvars

\* line 91 with the test on the target's index lost
WithComma_local(ei, n, ui, total) == ei < n - 1

\* line 91: the entry is followed by a comma
WithComma(ei, n, ui, total) == ei < n - 1 \/ ui < total - 1

\* lines 92, 94: the chunk of a data entry
EntryChunk(entry, comma) == IF comma THEN <<Dumps(entry), ",\n">> ELSE <<Dumps(entry), "\n">>

\* lines 90-94: the json loop yields the next entry
JsonYield ==
    /\ running /\ gpc = "json_loop"
    /\ i < Len(data.data)
    /\ out' = Append(out, EntryChunk(data.data[i + 1], WithComma(i, Len(data.data), ix, Len(urls))))
    /\ gpc' = "json_yield"
    /\ running' = FALSE
    /\ last' = "chunk"
    /\ UNCHANGED <<urls, result_type, show_progress, stderr, ix, lines, data, i, stopped, fetchlog>>
    /\ UNCHANGED dvars

\* lines 92, 94: the frame resumes after the yield of an entry
JsonResume ==
    /\ running /\ gpc = "json_yield"
    /\ i' = i + 1
    /\ gpc' = "json_loop"
    /\ UNCHANGED <<urls, result_type, show_progress, stderr, ix, lines, data, running, out, last, stopped, fetchlog>>
    /\ UNCHANGED dvars

\* line 90: the json loop is exhausted
JsonDone ==
    /\ running /\ gpc = "json_loop"
    /\ ~(i < Len(data.data))
    /\ gpc' = "next_url"
    /\ UNCHANGED <<urls, result_type, show_progress, stderr, ix, lines, data, i, running, out, last, stopped, fetchlog>>
    /\ UNCHANGED dvars

\* line 71 with a url skipped
NextUrl_skip ==
    /\ running /\ gpc = "next_url"
    /\ ix' = ix + 2
    /\ gpc' = "for"
    /\ UNCHANGED <<urls, result_type, show_progress, stderr, lines, data, i, running, out, last, stopped, fetchlog>>
    /\ UNCHANGED dvars

\* line 71: back to the head of the for loop
NextUrl ==
    /\ running /\ gpc = "next_url"
    /\ ix' = ix + 1
    /\ gpc' = "for"
    /\ UNCHANGED <<urls, result_type, show_progress, stderr, lines, data, i, running, out, last, stopped, fetchlog>>
    /\ UNCHANGED dvars

\* the closing chunk of line 97
CloseChunk == <<"]}\n">>

\* lines 96-97 with the closing chunk lost
JsonClose_skip ==
    /\ running /\ gpc = "for"
    /\ ~(ix < Len(urls))
    /\ result_type = "json"
    /\ gpc' = "close_yield"
    /\ running' = FALSE
    /\ last' = "chunk"
    /\ UNCHANGED <<urls, result_type, show_progress, stderr, ix, lines, data, i, out, stopped, fetchlog>>
    /\ UNCHANGED dvars

\* lines 96-97 with the closing chunk only for a non-empty list of urls
JsonClose_nonempty ==
    /\ running /\ gpc = "for"
    /\ ~(ix < Len(urls))
    /\ result_type = "json"
    /\ out' = (IF Len(urls) = 0 THEN out ELSE Append(out, <<"]}\n">>))
    /\ gpc' = "close_yield"
    /\ running' = FALSE
    /\ last' = "chunk"
    /\ UNCHANGED <<urls, result_type, show_progress, stderr, ix, lines, data, i, stopped, fetchlog>>
    /\ UNCHANGED dvars

\* lines 96-97: the for loop is exhausted and the closing chunk is yielded
JsonClose ==
    /\ running /\ gpc = "for"
    /\ ~(ix < Len(urls))
    /\ result_type = "json"
    /\ out' = Append(out, CloseChunk)
    /\ gpc' = "close_yield"
    /\ running' = FALSE
    /\ last' = "chunk"
    /\ UNCHANGED <<urls, result_type, show_progress, stderr, ix, lines, data, i, stopped, fetchlog>>
    /\ UNCHANGED dvars

\* lines 96-100: the function body ends without a further yield
Finish ==
    /\ running
    /\ \/ gpc = "close_yield"
       \/ gpc = "for" /\ ~(ix < Len(urls)) /\ result_type # "json"
    /\ stderr' = (IF show_progress THEN Append(stderr, <<"Done!">>) ELSE stderr)
    /\ gpc' = "finished"
    /\ running' = FALSE
    /\ last' = "StopIteration"
    /\ UNCHANGED <<urls, result_type, show_progress, ix, lines, data, i, out, stopped, fetchlog>>
    /\ UNCHANGED dvars

\* the steps of the generator's frame and the pulls of a consumer that goes on pulling
SLive ==
    \/ Pull
    \/ Start \/ CallUrlopen \/ UrlopenRaises \/ UrlopenReturns
    \/ CsvYield \/ CsvResume \/ CsvDone
    \/ JsonOpenResume \/ JsonYield \/ JsonResume \/ JsonDone
    \/ NextUrl \/ JsonClose \/ Finish

SNext ==
    \/ Pull \/ PullEnded \/ Stop
    \/ Start \/ CallUrlopen \/ UrlopenRaises \/ UrlopenReturns
    \/ CsvYield \/ CsvResume \/ CsvDone
    \/ JsonOpenResume \/ JsonYield \/ JsonResume \/ JsonDone
    \/ NextUrl \/ JsonClose \/ Finish

SpecStream == SInit /\ [][SNext]_vars

\* the interpreter runs the frame to its next yield, and the loop of line 116
\* pulls again after each chunk unless the consumer stops
SpecStreamFair == SpecStream /\ WF_vars(SLive)

(* ---------------- properties of request_data ---------------- *)
\* every fetch of the target list succeeds
AllSucceed == \A k \in 1..Len(urls) : urls[k].status = "ok"

\* the pass was pulled to the end and no fetch failed
Completed == gpc = "finished"

\* the concatenation of a sequence of sequences
RECURSIVE Flatten(_)
Flatten(sqs) == IF Len(sqs) = 0 THEN << >> ELSE Head(sqs) \o Flatten(Tail(sqs))

\* the lines of target k that belong in the stitched csv, as texts
CsvPart(k) ==
    LET body == urls[k].body
    IN  [ln \in 1..(IF k = 1 THEN Len(body) ELSE IF Len(body) = 0 THEN 0 ELSE Len(body) - 1) |->
            body[IF k = 1 THEN ln ELSE ln + 1].bytes]

\* C6: for csv and targets whose fetches all succeed the stream is every line
\* of the first response followed, for each later target in order, by every
\* line but the first; an empty later response contributes nothing.
C6_CsvStitch ==
    (result_type = "csv" /\ AllSucceed /\ Completed) =>
        Flatten(out) = Flatten([k \in 1..Len(urls) |-> CsvPart(k)])

\* a completed csv pass with a first response of one line, an empty later
\* response and a later response of two lines
C6_Witness ==
    /\ result_type = "csv" /\ AllSucceed /\ Completed
    /\ Len(urls) >= 3
    /\ Len(urls[1].body) = 1
    /\ \E k \in 2..Len(urls) : Len(urls[k].body) = 0
    /\ \E k \in 2..Len(urls) : Len(urls[k].body) = 2
    /\ Len(out) = 2

\* the serialized data entries of all targets, in target order then array order
AllEntries ==
    Flatten([k \in 1..Len(urls) |->
                [e \in 1..Len(urls[k].body.data) |-> Dumps(urls[k].body.data[e])]])

\* the text pieces form one json object {"metadata": m, "data": [e, ..., e]}
WellFormedJson(pieces, metadata, entries) ==
    LET n == Len(pieces)
    IN  /\ n = 4 + 2 * Len(entries)
        /\ pieces[1] = "{\"metadata\": "
        /\ pieces[2] = metadata
        /\ pieces[3] = ",\n\"data\": [\n"
        /\ pieces[n] = "]}\n"
        /\ \A e \in 1..Len(entries) :
               /\ pieces[2 + 2 * e] = entries[e]
               /\ pieces[3 + 2 * e] = (IF e < Len(entries) THEN ",\n" ELSE "\n")

\* C7: for json and a non-empty target list whose fetches all succeed, with
\* data arrays of any length, the concatenated chunks are one well-formed
\* json object: the metadata, all data entries in target order then array
\* order separated by commas, and no comma before the closing.
C7_JsonWellFormed ==
    (result_type = "json" /\ Len(urls) > 0 /\ AllSucceed /\ Completed) =>
        WellFormedJson(Flatten(out), Dumps(urls[1].body.metadata), AllEntries)

\* a chunk is the opening chunk
IsOpenChunk(c) == Len(c) = 3 /\ c[1] = "{\"metadata\": "

\* C8: for json with a non-empty target list the opening chunk is emitted
\* once, as the first chunk, with the first target's metadata; no later
\* chunk is an opening chunk or carries any metadata.
C8_OpeningOnce ==
    (result_type = "json" /\ Len(urls) > 0) =>
        /\ Len(out) >= 1 => out[1] = <<"{\"metadata\": ", Dumps(urls[1].body.metadata), ",\n\"data\": [\n">>
        /\ \A c \in 2..Len(out) :
               /\ ~IsOpenChunk(out[c])
               /\ \A q \in 1..Len(out[c]) : out[c][q] \notin { Dumps(m) : m \in MetaValues }
        /\ (Completed \/ Len(fetchlog) > 2) => Len(out) >= 1

\* a completed json pass over three targets whose later metadata differ from the first
C8_Witness ==
    /\ result_type = "json" /\ Completed
    /\ Len(urls) >= 3
    /\ \A k \in 2..Len(urls) : urls[k].body.metadata # urls[1].body.metadata
    /\ Len(out) >= 4

\* C9: in a pass pulled to the end without a failed fetch every target is
\* fetched exactly once, in list order, and a call of urlopen is never made
\* before the preceding one has returned.
C9_FetchOnceInOrder ==
    /\ \A p \in 1..Len(fetchlog) :
           IF p % 2 = 1
           THEN fetchlog[p] = <<"call", (p + 1) \div 2>>
           ELSE fetchlog[p][1] \in {"return", "raise"} /\ fetchlog[p][2] = p \div 2
    /\ Completed =>
           /\ Len(fetchlog) = 2 * Len(urls)
           /\ \A k \in 1..Len(urls) : fetchlog[2 * k] = <<"return", k>>

\* a completed pass over at least two targets
C9_Witness == Completed /\ Len(urls) >= 2 /\ Len(fetchlog) = 2 * Len(urls)

\* the number of chunks that target k contributes to the stream
ChunkCount(k) ==
    IF urls[k].status # "ok" THEN 0
    ELSE IF result_type = "csv"
         THEN (IF k = 1 THEN Len(urls[k].body) ELSE IF Len(urls[k].body) = 0 THEN 0 ELSE Len(urls[k].body) - 1)
    ELSE IF result_type = "json"
         THEN (IF k = 1 THEN 1 ELSE 0) + Len(urls[k].body.data)
    ELSE 0

\* the number of chunks that targets 1..k contribute
RECURSIVE ChunksThrough(_)
ChunksThrough(k) == IF k = 0 THEN 0 ELSE ChunksThrough(k - 1) + ChunkCount(k)

\* the consumer has not yet pulled
NeverPulled == ~running /\ last = "none"

\* C10: fetches are demand-driven: none before the consumer's first pull;
\* a target is fetched only while the consumer demands a chunk and after all
\* chunks of the earlier targets were delivered; once the consumer has
\* stopped pulling no fetch happens.
C10_DemandDriven ==
    /\ [](NeverPulled => fetchlog = << >>)
    /\ [][(fetchlog' # fetchlog) =>
             /\ running /\ ~stopped
             /\ Len(fetchlog) % 2 = 0 =>
                    Len(out) = ChunksThrough(Len(fetchlog) \div 2)]_vars
    /\ [][stopped => fetchlog' = fetchlog]_vars

\* the consumer stopped after the chunks of the first target, with targets left unfetched
C10_Witness ==
    /\ stopped
    /\ Len(urls) >= 2
    /\ Len(fetchlog) = 2
    /\ Len(out) >= 1
    /\ Len(out) = ChunkCount(1)

\* a chunk is the closing chunk
IsCloseChunk(c) == c = <<"]}\n">>

\* C11: when the fetch of target k fails the failure reaches the consumer on
\* that pull and the stream ends: nothing of target k or a later target is
\* emitted, no later target is fetched, the closing chunk is not emitted, and
\* the chunks delivered before stay as they were.
C11_FailureEndsStream ==
    /\ [](\A p \in 1..Len(fetchlog) :
             fetchlog[p][1] = "raise" =>
                 /\ p = Len(fetchlog)
                 /\ gpc = "raised" /\ ~running
                 /\ last \in {"error", "StopIteration"}
                 /\ Len(out) = ChunksThrough(fetchlog[p][2] - 1)
                 /\ \A c \in 1..Len(out) : ~IsCloseChunk(out[c]))
    /\ [][(Len(fetchlog') > Len(fetchlog) /\ fetchlog'[Len(fetchlog')][1] = "raise") =>
             (out' = out /\ last' = "error")]_vars
    /\ [][gpc = "raised" => (out' = out /\ fetchlog' = fetchlog /\ gpc' = "raised")]_vars

\* the fetch of the second of at least three targets failed after chunks of the first were delivered
C11_Witness ==
    /\ gpc = "raised"
    /\ Len(urls) >= 3
    /\ fetchlog[Len(fetchlog)] = <<"raise", 2>>
    /\ Len(out) >= 2

\* C12: for end_date earlier than begin_date get_date_sequence validates
\* nothing and raises nothing: it returns the one range (begin_date, end_date),
\* whose start is after its end.
C12_ReversedInput ==
    (ToOrdinal(end_date) < ToOrdinal(begin_date)) =>
        \/ dpc = "start" /\ dates = << >>
        \/ /\ dpc = "done"
           /\ dates = << <<begin_date, end_date>> >>
           /\ DateLT(REnd(dates[1]), RStart(dates[1]))

\* get_date_sequence has returned for an end_date before begin_date
C12_Witness ==
    /\ dpc = "done"
    /\ ToOrdinal(end_date) < ToOrdinal(begin_date)
    /\ Len(dates) = 1

\* C13: for json a data entry is emitted without a trailing comma exactly when
\* it is the last entry of the last target's data array, and with a comma
\* otherwise; only the entry's index and the target's index decide.
C13_CommaRule ==
    (result_type = "json" /\ gpc = "json_yield") =>
        /\ out[Len(out)][1] = Dumps(urls[ix + 1].body.data[i + 1])
        /\ out[Len(out)][2] =
               (IF i + 1 = Len(urls[ix + 1].body.data) /\ ix + 1 = Len(urls) THEN "\n" ELSE ",\n")

\* the last entry of the last target was just emitted, after the last entry of an earlier target
C13_Witness ==
    /\ result_type = "json" /\ gpc = "json_yield"
    /\ Len(urls) >= 2
    /\ ix + 1 = Len(urls)
    /\ i + 1 = Len(data.data)
    /\ Len(urls[1].body.data) >= 1
    /\ out[Len(out)][2] = "\n"
    /\ out[Len(out) - 1][2] = ",\n"

\* C14: for json, in a pass without a failed fetch that is pulled to the end,
\* the closing chunk is emitted exactly once, as the last chunk, after every
\* data entry of every target.
C14_ClosingOnce ==
    /\ \A c \in 1..Len(out) :
           IsCloseChunk(out[c]) => (c = Len(out) /\ gpc \in {"close_yield", "finished"})
    /\ (result_type = "json" /\ Completed) =>
           /\ Len(out) = ChunksThrough(Len(urls)) + 1
           /\ IsCloseChunk(out[Len(out)])

\* a completed json pass over at least two targets with data entries
C14_Witness ==
    /\ result_type = "json" /\ Completed
    /\ Len(urls) >= 2
    /\ Len(out) >= 4
    /\ IsCloseChunk(out[Len(out)])

\* L is the last day of d's month: same year and month, the day before the
\* first day of the next month, 31 December in December, and in February the
\* 29th in leap years and the 28th otherwise
IsLastDayOf(d, L) ==
    LET next == AddDays(L, 1)
    IN  /\ L.year = d.year /\ L.month = d.month
        /\ next.day = 1
        /\ next.month = (d.month % 12) + 1
        /\ next.year = (IF d.month = 12 THEN d.year + 1 ELSE d.year)
        /\ d.month = 12 => L.day = 31
        /\ d.month = 2 =>
               L.day = (IF d.year % 4 = 0 /\ (d.year % 100 # 0 \/ d.year % 400 = 0) THEN 29 ELSE 28)

\* C15: last_day_of_month(d) is the date of d's year and month whose next day
\* is the first of the next month: 31 December for December, without a year
\* rollover, and for February the 29th in leap years, the 28th otherwise.
\* (Checked on every value the function returned into dates.)
C15_LastDayOfMonth ==
    \A j \in 1..(IF dpc = "loop" THEN Len(dates) ELSE Len(dates) - 1) :
        IsLastDayOf(RStart(dates[j]), REnd(dates[j]))

\* the function was applied to a date in December, then in January and in February
C15_Witness ==
    /\ dpc = "loop"
    /\ Len(dates) >= 3
    /\ begin_date.month = 12
    /\ REnd(dates[1]).day = 31
    /\ REnd(dates[3]).month = 2

\* C16: the stream is finite and single-pass: under a consumer that goes on
\* pulling it ends, and once it has ended, by exhaustion or by a failure, a
\* further pull yields no chunk and performs no fetch.
C16_FiniteSinglePass ==
    /\ <>(Ended \/ stopped)
    /\ [][Ended => (out' = out /\ fetchlog' = fetchlog /\ gpc' = gpc /\ ~running')]_vars
    /\ [][(Ended /\ last' # last) => last' = "StopIteration"]_vars

\* the consumer pulled again after a failure ended a stream that had delivered chunks
C16_Witness ==
    /\ gpc = "raised"
    /\ last = "StopIteration"
    /\ Len(out) >= 1
    /\ ~stopped

\* C17: for json with an empty target list nothing is fetched and no opening
\* chunk is emitted, the stream being the closing chunk alone; in a completed
\* pass the opening chunk is present exactly when the list is non-empty, and
\* the closing chunk always.
C17_EmptyJson ==
    (result_type = "json" /\ Completed) =>
        /\ Len(urls) = 0 => (out = << <<"]}\n">> >> /\ fetchlog = << >>)
        /\ (\E c \in 1..Len(out) : IsOpenChunk(out[c])) <=> (Len(urls) > 0)
        /\ \E c \in 1..Len(out) : IsCloseChunk(out[c])

\* a completed json pass over an empty target list
C17_Witness ==
    /\ result_type = "json" /\ Completed
    /\ Len(urls) = 0
    /\ Len(out) = 1

\* C18: for a result_type that is neither csv nor json no error is raised: a
\* pass pulled to the end fetches every target once, in list order, and no
\* chunk is emitted.
C18_UnknownType ==
    (result_type \notin {"csv", "json"}) =>
        /\ out = << >>
        /\ AllSucceed => gpc # "raised"
        /\ gpc = "raised" => fetchlog[Len(fetchlog)][1] = "raise"
        /\ Completed =>
               /\ Len(fetchlog) = 2 * Len(urls)
               /\ \A k \in 1..Len(urls) :
                      fetchlog[2 * k - 1] = <<"call", k>> /\ fetchlog[2 * k] = <<"return", k>>

\* a completed pass over at least two targets with a result_type that is neither csv nor json
C18_Witness ==
    /\ result_type \notin {"csv", "json"}
    /\ Completed
    /\ Len(urls) >= 2
    /\ Len(fetchlog) = 2 * Len(urls)
====
